---------------------------- MODULE Spec2Model ----------------------------
(***************************************************************************)
(* The browser client of AI-Search: the search page script (router,       *)
(* results renderer, thread renderer) and the chat page script (two-phase  *)
(* chat orchestrator).                                                     *)
(*                                                                         *)
(* Conventions.                                                            *)
(*  - A JavaScript string is a sequence of one-character strings.          *)
(*  - A JavaScript value that may be undefined, a string, a number or an   *)
(*    array is a record [t, s, n, a]: t is the typeof tag, s the           *)
(*    characters of a string, n the number in TENTHS (87.6 is 876) or the  *)
(*    length of an array, a the elements of an array of strings.  null     *)
(*    and undefined are not told apart.                                    *)
(*  - Text that ends in textContent is kept flat, as a TLA+ string.        *)
(*  - An async function is one action up to its first await and one        *)
(*    action per continuation; the network resolves a pending request by   *)
(*    choosing a raw response.  A request that is never chosen hangs.      *)
(***************************************************************************)
EXTENDS Integers, Sequences, FiniteSets, TLC

\* ------------------------------------------------------------------ bounds
MaxCalls    == 2   \* showResults / showThread invocations in one run
MaxHits     == 2   \* hits in one lookup response
MaxEmails   == 2   \* email ids in one thread
MaxSubmits  == 2   \* chat submissions in one run

\* -------------------------------------------------------- JavaScript values
Undef   == [t |-> "undefined", s |-> <<>>, n |-> 0, a |-> <<>>]
S(s)    == [t |-> "string", s |-> s, n |-> 0, a |-> <<>>]
N(x)    == [t |-> "number", s |-> <<>>, n |-> x, a |-> <<>>]
A(list) == [t |-> "array", s |-> <<>>, n |-> Len(list), a |-> list]

\* Truthiness, as in `if (v)`, `v || w`, `v ? a : b`.
Truthy(v) ==
  CASE v.t = "string" -> v.s # <<>>
    [] v.t = "number" -> v.n # 0
    [] v.t = "array"  -> TRUE
    [] OTHER          -> FALSE

Or(v, w) == IF Truthy(v) THEN v ELSE w

RECURSIVE Text(_)
Text(s) == IF s = <<>> THEN "" ELSE Head(s) \o Text(Tail(s))

RECURSIVE Digits(_)
Digits(k) ==
  IF k < 10 THEN <<ToString(k)>> ELSE Digits(k \div 10) \o <<ToString(k % 10)>>

\* A number in tenths, printed as JavaScript prints it.
NumChars(x) ==
  LET a == IF x < 0 THEN 0 - x ELSE x
      whole == Digits(a \div 10)
      frac == IF a % 10 = 0 THEN <<>> ELSE <<".">> \o Digits(a % 10)
  IN  (IF x < 0 THEN <<"-">> ELSE <<>>) \o whole \o frac

RECURSIVE JoinWith(_, _)
JoinWith(ws, sep) ==
  IF ws = <<>> THEN <<>>
  ELSE IF Len(ws) = 1 THEN ws[1]
  ELSE ws[1] \o sep \o JoinWith(Tail(ws), sep)

\* String(v)
String(v) ==
  CASE v.t = "string" -> v.s
    [] v.t = "number" -> NumChars(v.n)
    [] v.t = "array"  -> JoinWith(v.a, <<",">>)
    [] OTHER          -> <<"u","n","d","e","f","i","n","e","d">>

\* Math.round of a number in tenths: the nearest integer, halves upwards.
Round(x) == (x + 5) \div 10

\* --------------------------------------------------------------- DOM helpers
RECURSIVE ReplaceAll(_, _, _)
ReplaceAll(s, c, r) ==
  IF s = <<>> THEN <<>>
  ELSE (IF Head(s) = c THEN r ELSE <<Head(s)>>) \o ReplaceAll(Tail(s), c, r)

\* safe: three global replaces, & first.  An undefined argument takes the
\* default "".
safe(v) ==
  LET s0 == IF v.t = "undefined" THEN <<>> ELSE String(v)
      s1 == ReplaceAll(s0, "&", <<"&","a","m","p",";">>)
      s2 == ReplaceAll(s1, "<", <<"&","l","t",";">>)
  IN  ReplaceAll(s2, ">", <<"&","g","t",";">>)

IsSpace(c) == c \in {" ", "\n", "\t"}

RECURSIVE TrimLeft(_)
TrimLeft(s) == IF s # <<>> /\ IsSpace(Head(s)) THEN TrimLeft(Tail(s)) ELSE s

RECURSIVE TrimRight(_)
TrimRight(s) ==
  IF s # <<>> /\ IsSpace(s[Len(s)]) THEN TrimRight(SubSeq(s, 1, Len(s) - 1)) ELSE s

Trim(s) == TrimRight(TrimLeft(s))

\* s.split(/\s+/): the pieces between maximal runs of white space.
RECURSIVE SplitWs(_, _)
SplitWs(s, cur) ==
  IF s = <<>> THEN <<cur>>
  ELSE IF IsSpace(Head(s)) THEN <<cur>> \o SplitWs(TrimLeft(s), <<>>)
  ELSE SplitWs(Tail(s), Append(cur, Head(s)))

\* The one character U+2026, written in ASCII.
Ellipsis == "..."

\* The one character U+0060, which a TLA+ string cannot hold.
Backtick == "[backtick]"

Min(a, b) == IF a < b THEN a ELSE b

cutToWords(text, maxWords) ==
  LET words == SplitWs(Trim(text), <<>>)
  IN  JoinWith(SubSeq(words, 1, Min(maxWords, Len(words))), <<" ">>)
        \o (IF Len(words) > maxWords THEN <<Ellipsis>> ELSE <<>>)

ThreadTopicWords == 60
DocParagraphWords == 80

\* encodeURIComponent over the characters the model uses.
PercentCode(c) ==
  CASE c = "<" -> <<"%","3","C">>
    [] c = ">" -> <<"%","3","E">>
    [] c = "&" -> <<"%","2","6">>
    [] c = " " -> <<"%","2","0">>
    [] c = "/" -> <<"%","2","F">>
    [] c = "\"" -> <<"%","2","2">>
    [] c = Backtick -> <<"%","6","0">>
    [] c = "\n" -> <<"%","0","A">>
    [] OTHER   -> <<c>>

RECURSIVE encodeURIComponent(_)
encodeURIComponent(s) ==
  IF s = <<>> THEN <<>> ELSE PercentCode(Head(s)) \o encodeURIComponent(Tail(s))

\* ----------------------------------------------------- the network's answers
\* A raw HTTP exchange: the transport fails (net = FALSE), or a response
\* arrives with a status, a body text and, when the body parses, its JSON.
Raw(net, status, text, valid, json) ==
  [net |-> net, status |-> status, text |-> text, valid |-> valid, json |-> json]

\* fetchJSON: the parsed body of a 2xx response, or a thrown Error whose
\* message is the body text, "Request failed: <status>" when that is empty,
\* or the transport's / the parser's own message.  A message is a sequence
\* of characters (a fixed message is one piece).
fetchJSON(raw) ==
  IF ~raw.net THEN [ok |-> FALSE, message |-> <<"Failed to fetch">>, data |-> raw.json]
  ELSE IF ~(raw.status >= 200 /\ raw.status <= 299)
    THEN [ok |-> FALSE,
          message |-> IF raw.text # <<>> THEN raw.text
                      ELSE <<"Request failed: ", ToString(raw.status)>>,
          data |-> raw.json]
  ELSE IF ~raw.valid
    THEN [ok |-> FALSE, message |-> <<"Unexpected token">>, data |-> raw.json]
  ELSE [ok |-> TRUE, message |-> <<>>, data |-> raw.json]

\* ------------------------------------------------------------- search hits
NoHit ==
  [thread_id |-> Undef, subject |-> Undef, topic |-> Undef, score |-> Undef,
   emails_count |-> Undef, emails |-> Undef, doc_path |-> Undef,
   doc_name |-> Undef, page |-> Undef, paragraph_index |-> Undef,
   paragraph |-> Undef]

\* {thread_id:"T1", subject:"Re: b", score:87.6, emails_count:1}
HitThread ==
  [NoHit EXCEPT !.thread_id = S(<<"T","1">>),
                !.subject = S(<<"R","e",":"," ","b">>),
                !.score = N(876), !.emails_count = N(10)]

\* {doc_path:"/d/a", paragraph:"x  y", page:3, score:12.5}
HitDoc ==
  [NoHit EXCEPT !.doc_path = S(<<"/","d","/","a">>),
                !.paragraph = S(<<"x"," "," ","y">>),
                !.page = N(30), !.score = N(125)]

\* {doc_path:"a", doc_name:"<b>&", page:"<i>", paragraph:"<"}
HitDocMarkup ==
  [NoHit EXCEPT !.doc_path = S(<<"a">>),
                !.doc_name = S(<<"<","b",">","&">>),
                !.page = S(<<"<","i",">">>),
                !.paragraph = S(<<"<">>)]

\* {subject:"s"}: neither thread_id nor doc_path
HitNeither == [NoHit EXCEPT !.subject = S(<<"s">>)]

\* The hits a lookup may answer with, in the order the backend ranks them.
SampleHits == <<HitThread, HitDoc, HitNeither, HitDocMarkup>>

\* The subsequences of `hits` with at most k elements.
RECURSIVE SubSeqsUpTo(_, _)
SubSeqsUpTo(hits, k) ==
  IF hits = <<>> \/ k = 0 THEN {<<>>}
  ELSE SubSeqsUpTo(Tail(hits), k)
         \cup {<<Head(hits)>> \o q : q \in SubSeqsUpTo(Tail(hits), k - 1)}

\* The body of a /lookup answer: `results` is an array of hits, or absent,
\* or something that is not an array.
LookupData(rt, items) == [resultsType |-> rt, items |-> items]

LookupBodies ==
  {LookupData("array", h) : h \in SubSeqsUpTo(SampleHits, MaxHits)}
    \cup {LookupData("undefined", <<>>), LookupData("string", <<>>)}

NoLookupData == LookupData("undefined", <<>>)

LookupAnswers ==
  {Raw(TRUE, 200, <<>>, TRUE, b) : b \in LookupBodies}
    \cup {Raw(FALSE, 0, <<>>, FALSE, NoLookupData),
          Raw(TRUE, 500, <<"boom">>, FALSE, NoLookupData),
          Raw(TRUE, 404, <<>>, FALSE, NoLookupData),
          Raw(TRUE, 200, <<>>, FALSE, NoLookupData)}


\* ------------------------------------------------------ search page: state
VARIABLES
  hist,            \* the session history: the URL query of each entry
  histIdx,         \* the current entry; location is hist[histIdx]
  ready,           \* DOMContentLoaded has fired
  active,          \* the view containers that carry the class "active"
  homeFocused,     \* #home-query was given the focus
  resultsQuery,    \* #results-query .value
  resultsSummary,  \* #results-summary .textContent
  resultsList,     \* #results-list: its <li> cards, in order
  threadTitle,     \* #thread-title .textContent
  threadTopic,     \* #thread-topic .textContent
  threadDetail1,   \* #thread-detail1 .textContent
  emailsList,      \* #emails-list: its <li> items, in order
  bulkBound,       \* #expand-all / #collapse-all have their onclick set
  calls,           \* the showResults / showThread invocations, in call order
  requests,        \* every request handed to fetch, in order
  localStorage,    \* the docview:<id> entries
  uuids            \* identifiers minted so far

searchVars ==
  <<hist, histIdx, ready, active, homeFocused, resultsQuery, resultsSummary,
    resultsList, threadTitle, threadTopic, threadDetail1, emailsList,
    bulkBound, calls, requests>>

storeVars == <<localStorage, uuids>>

\* ------------------------------------------------------- chat page: state
VARIABLES
  chatInput,      \* #chat-input .value
  chatMessages,   \* #chat-messages: its .msg items, in order
  submits,        \* the runs of the submit listener, in submission order
  chatRequests    \* every request the chat page handed to fetch, in order

chatVars == <<chatInput, chatMessages, submits, chatRequests>>

VIEWS == [HOME |-> "home", RESULTS |-> "results", THREAD |-> "thread"]

\* The .view containers of the search page: #view-home, #view-results,
\* #view-thread.
ViewContainers == {VIEWS.HOME, VIEWS.RESULTS, VIEWS.THREAD}

location == hist[histIdx]

\* (mutant) show without the removal of "active" from the other views.
showKeepsOthers(view) ==
  active \cup (IF view \in ViewContainers THEN {view} ELSE {})

\* show: every .view loses "active", then #view-<view> gains it if it exists.
show(view) ==
  (active \ ViewContainers) \cup (IF view \in ViewContainers THEN {view} ELSE {})

IntChars(k) == NumChars(k * 10)

\* crypto.randomUUID(): the k-th identifier minted, different from all others.
MintId(k) == <<"id-">> \o IntChars(k)

\* ------------------------------------------------------- results renderer
Card(kind, origin, href, title, pills, snippet, footer) ==
  [kind |-> kind, origin |-> origin, href |-> href, title |-> title,
   pills |-> pills, snippet |-> snippet, footer |-> footer]

ScorePill(r) ==
  IF r.score.t = "number"
    THEN <<<<"score: ">> \o IntChars(Round(r.score.n)) \o <<"%">>>>
    ELSE <<>>

\* The <li> of a thread hit (lines 96-121), built for invocation k.
ThreadCard(r, k) ==
  LET tid == r.thread_id
      subject == Or(r.subject, S(<<"Thread ">> \o String(tid)))
      topicLine == IF Truthy(r.topic) THEN String(r.topic) ELSE <<"(No Topic)">>
      emailsCount == IF r.emails_count.t = "number" THEN r.emails_count
                     ELSE IF r.emails.t = "array" THEN N(r.emails.n * 10)
                     ELSE Undef
      emailsPill == IF emailsCount.t = "number"
                      THEN <<NumChars(emailsCount.n) \o <<" email">>
                               \o (IF emailsCount.n = 10 THEN <<>> ELSE <<"s">>)>>
                      ELSE <<>>
  IN  Card("thread", k,
           <<"?mode=thread&id=">> \o encodeURIComponent(String(tid)),
           safe(subject),
           <<safe(tid)>> \o ScorePill(r) \o emailsPill,
           safe(S(cutToWords(topicLine, ThreadTopicWords))),
           <<>>)

\* r.doc_path.split(/[\\/]/).pop()
RECURSIVE LastSegment(_)
LastSegment(s) ==
  IF \E i \in 1..Len(s) : s[i] \in {"/", "\\"}
    THEN LastSegment(Tail(s))
    ELSE s

DocTitle(r) == Or(r.doc_name, S(LastSegment(String(r.doc_path))))

\* The staging record of a document hit (lines 131-137).
DocPayload(r) ==
  [doc_name |-> DocTitle(r), source |-> r.doc_path, page |-> r.page,
   paragraph_index |-> r.paragraph_index, paragraph |-> Or(r.paragraph, S(<<>>))]

\* The <li> of a document hit (lines 123-152), built for invocation k, linking
\* to the minted docId.
DocCard(r, k, docId) ==
  LET pagePill == IF r.page.t # "undefined"
                    THEN <<<<"page: ">> \o String(r.page)>>
                    ELSE <<>>
  IN  Card("doc", k,
           <<"/doc?id=">> \o encodeURIComponent(docId),
           safe(DocTitle(r)),
           ScorePill(r) \o pagePill,
           safe(S(cutToWords(String(Or(r.paragraph, S(<<>>))), DocParagraphWords))),
           safe(r.doc_path))

\* (mutant) the loop ends at the first hit with neither thread_id nor
\* doc_path.
RECURSIVE RenderHitsUntilUnknown(_, _, _, _, _)
RenderHitsUntilUnknown(hits, i, k, acc, quota) ==
  IF i > Len(hits) THEN acc
  ELSE
    LET r == hits[i]
        docId == MintId(acc.uuids + 1)
    IN  IF Truthy(r.thread_id) THEN RenderHitsUntilUnknown(hits, i + 1, k, acc, quota)
        ELSE IF Truthy(r.doc_path)
          THEN RenderHitsUntilUnknown(
                 hits, i + 1, k,
                 [list |-> Append(acc.list, DocCard(r, k, docId)),
                  store |-> IF i \in quota THEN acc.store
                            ELSE acc.store \cup
                                   {[key |-> docId, payload |-> DocPayload(r)]},
                  uuids |-> acc.uuids + 1],
                 quota)
        ELSE acc

\* The loop over the hits (lines 92-155) from hit i on.  acc carries the
\* list, the storage and the number of identifiers minted; quota is the set
\* of hits whose localStorage.setItem throws (the exception is swallowed).
\* A thread hit builds its <li> and never appends it; a hit with neither
\* thread_id nor doc_path builds an empty <li> and never appends it.
RECURSIVE RenderHits(_, _, _, _, _)
RenderHits(hits, i, k, acc, quota) ==
  IF i > Len(hits) THEN acc
  ELSE
    LET r == hits[i]
        docId == MintId(acc.uuids + 1)
        next ==
          IF Truthy(r.thread_id) THEN LET li == ThreadCard(r, k) IN acc
          ELSE IF Truthy(r.doc_path)
            THEN [list |-> Append(acc.list, DocCard(r, k, docId)),
                  store |-> IF i \in quota THEN acc.store
                            ELSE acc.store \cup
                                   {[key |-> docId, payload |-> DocPayload(r)]},
                  uuids |-> acc.uuids + 1]
          ELSE acc
    IN  RenderHits(hits, i + 1, k, next, quota)


\* -------------------------------------------------------- thread renderer
\* pick: the first argument that is not undefined, null or "".
RECURSIVE pick(_)
pick(vals) ==
  IF vals = <<>> THEN Undef
  ELSE IF Head(vals).t # "undefined" /\ Head(vals) # S(<<>>) THEN Head(vals)
  ELSE pick(Tail(vals))

formatRecipients(v) ==
  IF ~Truthy(v) THEN <<>>
  ELSE IF v.t = "array" THEN JoinWith(v.a, <<",", " ">>)
  ELSE String(v)

\* The date strings `new Date(s)` can parse, with their locale rendering
\* (medium date, two-digit hour and minute).
DateIso == <<"2","0","2","4","-","0","1","-","0","2","T","0","3",":","0","4">>

ParsedDates == {DateIso}

toLocaleString(s) == <<"Jan 02, 2024, 03:04 AM">>

formatDateDisplay(v) ==
  IF ~Truthy(v) THEN <<"No date">>
  ELSE IF String(v) \notin ParsedDates THEN String(v)
  ELSE toLocaleString(String(v))

\* setBlock: "<label>:\n<text>" when text is truthy, "" otherwise.
setBlock(label, text) ==
  IF Truthy(text) THEN label \o ":\n" \o Text(String(text)) ELSE ""

\* The body of a /threads/<id> answer.
ThreadData(subject, topic, detail1, ids) ==
  [subject |-> subject, topic |-> topic, detail1 |-> detail1, detail2 |-> Undef,
   email_ids |-> ids]

EmailId(j) == <<"e">> \o IntChars(j)

EmailIds(m) == [j \in 1..m |-> EmailId(j)]

\* A thread of j emails: the first has subject, topic and summary, the next
\* a topic only, the next none of them, and so on in turn.
ThreadMetas ==
  <<<<Undef, Undef, Undef>>,
    <<Undef, S(<<"t","o">>), Undef>>,
    <<S(<<"S","u">>), S(<<"t","o">>), S(<<"d">>)>>>>

ThreadOf(j) ==
  LET m == ThreadMetas[(j % 3) + 1]
  IN  ThreadData(m[1], m[2], m[3], EmailIds(j))

ThreadBodies == {ThreadOf(j) : j \in 0..MaxEmails}

NoThreadData == ThreadData(Undef, Undef, Undef, <<>>)

ThreadAnswers ==
  {Raw(TRUE, 200, <<>>, TRUE, b) : b \in ThreadBodies}
    \cup {Raw(FALSE, 0, <<>>, FALSE, NoThreadData),
          Raw(TRUE, 404, <<"no such thread">>, FALSE, NoThreadData)}

\* The body of an /emails/<id> answer: {data: {...}}, or an object without
\* data (hasData = FALSE).
NoEmail ==
  [hasData |-> TRUE, subject |-> Undef, from |-> Undef, sender |-> Undef,
   to |-> Undef, receiver |-> Undef, cc |-> Undef, ccs |-> Undef,
   date |-> Undef, sent_at |-> Undef, text_body |-> Undef, body |-> Undef,
   snippet |-> Undef, attachments |-> <<>>, attachmentsIsArray |-> FALSE]

Attachment(filename, name) == [filename |-> filename, name |-> name]

EmailFull ==
  [NoEmail EXCEPT !.subject = S(<<"H","i">>), !.from = S(<<"a","@","x">>),
                  !.to = A(<<<<"b">>, <<"c">>>>), !.date = S(DateIso),
                  !.text_body = S(<<"<","p",">">>),
                  !.attachments = <<Attachment(S(<<"f">>), Undef),
                                    Attachment(Undef, S(<<"n">>)),
                                    Attachment(Undef, Undef)>>,
                  !.attachmentsIsArray = TRUE]

EmailSparse ==
  [NoEmail EXCEPT !.sender = S(<<"s">>), !.receiver = S(<<"r">>),
                  !.sent_at = S(<<"s","o","o","n">>), !.snippet = S(<<"z">>)]

EmailNoData == [NoEmail EXCEPT !.hasData = FALSE]

EmailAnswers ==
  {Raw(TRUE, 200, <<>>, TRUE, b) : b \in {EmailFull, EmailSparse, EmailNoData}}
    \cup {Raw(TRUE, 500, <<>>, FALSE, NoEmail)}


\* An <li> of #emails-list: the item of email j of invocation k.
Content(state, text, headers, body, attachments) ==
  [state |-> state, text |-> text, headers |-> headers, body |-> body,
   attachments |-> attachments]

EmailPlaceholder(k, j, eid) ==
  [owner |-> k, idx |-> j, open |-> FALSE,
   headerLine |-> <<"Loading date", Ellipsis>>, pill |-> safe(S(eid)),
   content |-> Content("loading", "Loading" \o Ellipsis, <<>>, <<>>, <<>>)]

RECURSIVE KeepTruthy(_)
KeepTruthy(hdrs) ==
  IF hdrs = <<>> THEN <<>>
  ELSE (IF Truthy(Head(hdrs).v) THEN <<Head(hdrs)>> ELSE <<>>) \o KeepTruthy(Tail(hdrs))

\* The item once its email has loaded (lines 223-253).
EmailLoaded(item, data, eid) ==
  LET fromVal == pick(<<data.from, data.sender>>)
      toVal == pick(<<data.to, data.receiver>>)
      ccVal == pick(<<data.cc, data.ccs>>)
      hdrs == KeepTruthy(<<[k |-> "Subject", v |-> data.subject],
                           [k |-> "From", v |-> fromVal],
                           [k |-> "To", v |-> S(formatRecipients(toVal))],
                           [k |-> "Cc", v |-> S(formatRecipients(ccVal))]>>)
      headerHTML == [h \in 1..Len(hdrs) |->
                       [k |-> hdrs[h].k, v |-> safe(S(String(hdrs[h].v)))]]
      body == Or(data.text_body, Or(data.body, Or(data.snippet, S(<<>>))))
      attachments == IF data.attachmentsIsArray THEN data.attachments ELSE <<>>
      attachHTML == [h \in 1..Len(attachments) |->
                       safe(Or(attachments[h].filename,
                               Or(attachments[h].name, S(<<"file">>))))]
      dateRaw == Or(data.date, data.sent_at)
      dateLabel == formatDateDisplay(dateRaw)
  IN  [item EXCEPT !.headerLine = safe(S(dateLabel)), !.pill = safe(S(eid)),
                   !.content = Content("loaded", "", headerHTML,
                                       safe(S(String(body))), attachHTML)]

EmailFailed(item) ==
  [item EXCEPT !.content = Content("failed", "Failed to load email.", <<>>, <<>>, <<>>)]

\* li.querySelector(...) = ...: the write reaches the document only while the
\* <li> is still in #emails-list; a detached <li> is not part of the state.
IsItem(item, k, j) == item.owner = k /\ item.idx = j

\* ------------------------------------------------------ invocations, requests
\* An invocation and its local variables: the argument, where it stands
\* (pc), the last response it awaited (res), hits (showResults), email_ids and
\* the loop index (showThread).
Res(raw) == [net |-> raw.net, status |-> raw.status, text |-> raw.text, valid |-> raw.valid]

NoRes == [net |-> TRUE, status |-> 0, text |-> <<>>, valid |-> FALSE]

Call(fn, arg, pc, ids, i) ==
  [fn |-> fn, arg |-> arg, pc |-> pc, ids |-> ids, i |-> i, res |-> NoRes,
   hits |-> <<>>]

Request(k, endpoint, arg) == [call |-> k, endpoint |-> endpoint, arg |-> arg]

SetCall(k, raw, pc, ids, i) ==
  [calls EXCEPT ![k].pc = pc, ![k].ids = ids, ![k].i = i, ![k].res = Res(raw)]

\* ---------------------------------------------------------- showResults
\* Lines 69-84: up to the await of the lookup.
showResults(query) ==
  IF VIEWS.RESULTS \notin ViewContainers
    THEN UNCHANGED <<active, homeFocused, resultsQuery, resultsSummary,
                     resultsList, threadTitle, threadTopic, threadDetail1,
                     emailsList, bulkBound, calls, requests>>
    ELSE /\ active' = show(VIEWS.RESULTS)
         /\ resultsQuery' = String(query)
         /\ resultsSummary' = "Searching" \o Ellipsis
         /\ resultsList' = <<>>
         /\ requests' = Append(requests, Request(Len(calls) + 1, "/lookup", String(query)))
         /\ calls' = Append(calls, Call("showResults", query, "lookup", <<>>, 0))
         /\ UNCHANGED <<homeFocused, threadTitle, threadTopic, threadDetail1,
                        emailsList, bulkBound>>

SummaryLine(hits) ==
  IF Len(hits) # 0
    THEN ToString(Len(hits)) \o " matching result" \o (IF Len(hits) > 1 THEN "s" ELSE "")
    ELSE "No matching results found."

DocHits(hits) == {i \in 1..Len(hits) : ~Truthy(hits[i].thread_id) /\ Truthy(hits[i].doc_path)}

\* The storage may be full: setItem then throws for the document hit at which
\* the quota is reached and for every later one.
QuotaChoices(hits) ==
  {{i \in DocHits(hits) : i >= m} : m \in DocHits(hits) \cup {Len(hits) + 1}}

\* Lines 85-159: the lookup of invocation k has settled with `raw`.
showResultsAwait(k, raw, quota) ==
  LET out == fetchJSON(raw)
      hits == IF out.data.resultsType = "array" THEN out.data.items ELSE <<>>
      acc == RenderHits(hits, 1, k,
                        [list |-> resultsList, store |-> localStorage, uuids |-> uuids],
                        quota)
  IN  IF out.ok
        THEN /\ resultsSummary' = SummaryLine(hits)
             /\ resultsList' = acc.list
             /\ localStorage' = acc.store
             /\ uuids' = acc.uuids
             /\ calls' = [SetCall(k, raw, "done", <<>>, 0) EXCEPT ![k].hits = hits]
        ELSE /\ resultsSummary' = "Error: " \o Text(out.message)
             /\ calls' = SetCall(k, raw, "failed", <<>>, 0)
             /\ UNCHANGED <<resultsList, localStorage, uuids>>

LookupSettles ==
  \E k \in 1..Len(calls) :
    /\ calls[k].fn = "showResults" /\ calls[k].pc = "lookup"
    /\ \E raw \in LookupAnswers :
         \E quota \in QuotaChoices(raw.json.items) :
           showResultsAwait(k, raw, quota)
    /\ UNCHANGED <<hist, histIdx, ready, active, homeFocused, resultsQuery,
                   threadTitle, threadTopic, threadDetail1, emailsList,
                   bulkBound, requests>>
    /\ UNCHANGED chatVars


\* ------------------------------------------------------------ showThread
\* (mutant) showThread without the check of lines 182-185.
showThreadNoIdCheck(threadId) ==
  IF VIEWS.THREAD \notin ViewContainers
    THEN UNCHANGED <<active, homeFocused, resultsQuery, resultsSummary,
                     resultsList, threadTitle, threadTopic, threadDetail1,
                     emailsList, bulkBound, calls, requests>>
  ELSE /\ active' = show(VIEWS.THREAD)
       /\ emailsList' = <<>>
       /\ threadTitle' = "Loading" \o Ellipsis
       /\ threadTopic' = ""
       /\ threadDetail1' = ""
       /\ requests' = Append(requests,
                             Request(Len(calls) + 1, "/threads/",
                                     encodeURIComponent(String(threadId))))
       /\ calls' = Append(calls, Call("showThread", threadId, "meta", <<>>, 0))
       /\ UNCHANGED <<homeFocused, resultsQuery, resultsSummary, resultsList,
                      bulkBound>>

\* Lines 180-195: up to the await of the thread metadata.
showThread(threadId) ==
  IF VIEWS.THREAD \notin ViewContainers
    THEN UNCHANGED <<active, homeFocused, resultsQuery, resultsSummary,
                     resultsList, threadTitle, threadTopic, threadDetail1,
                     emailsList, bulkBound, calls, requests>>
  ELSE IF ~Truthy(threadId)
    THEN /\ active' = show(VIEWS.HOME)
         /\ UNCHANGED <<homeFocused, resultsQuery, resultsSummary, resultsList,
                        threadTitle, threadTopic, threadDetail1, emailsList,
                        bulkBound, calls, requests>>
  ELSE /\ active' = show(VIEWS.THREAD)
       /\ emailsList' = <<>>
       /\ threadTitle' = "Loading" \o Ellipsis
       /\ threadTopic' = ""
       /\ threadDetail1' = ""
       /\ requests' = Append(requests,
                             Request(Len(calls) + 1, "/threads/",
                                     encodeURIComponent(String(threadId))))
       /\ calls' = Append(calls, Call("showThread", threadId, "meta", <<>>, 0))
       /\ UNCHANGED <<homeFocused, resultsQuery, resultsSummary, resultsList,
                      bulkBound>>

\* The for loop of lines 208-257 at email j, the list being `list`: the
\* placeholder of email j is appended and its fetch awaited; past the last
\* email the bulk controls are bound (lines 258-261) and the function ends.
EmailLoop(k, raw, ids, j, list) ==
  IF j <= Len(ids)
    THEN /\ emailsList' = Append(list, EmailPlaceholder(k, j, ids[j]))
         /\ requests' = Append(requests,
                               Request(k, "/emails/", encodeURIComponent(ids[j])))
         /\ calls' = SetCall(k, raw, "email", ids, j)
         /\ UNCHANGED bulkBound
    ELSE /\ emailsList' = list
         /\ calls' = SetCall(k, raw, "done", ids, j)
         /\ bulkBound' = TRUE
         /\ UNCHANGED requests

\* Lines 193-207: the metadata fetch of invocation k has settled with `raw`.
showThreadAwaitMeta(k, raw) ==
  LET out == fetchJSON(raw)
      t == out.data
      threadId == calls[k].arg
      subject == Or(t.subject, Or(t.topic, S(<<"Thread ">> \o String(threadId))))
  IN  IF ~out.ok
        THEN /\ threadTitle' = "Thread not found"
             /\ calls' = SetCall(k, raw, "notfound", <<>>, 0)
             /\ UNCHANGED <<threadTopic, threadDetail1, emailsList, bulkBound, requests>>
        ELSE /\ threadTitle' = Text(String(subject))
             /\ threadTopic' = setBlock("Topic", t.topic)
             /\ threadDetail1' = setBlock("Summary", t.detail1)
             /\ EmailLoop(k, raw, t.email_ids, 1, emailsList)

ThreadSettles ==
  \E k \in 1..Len(calls) :
    /\ calls[k].fn = "showThread" /\ calls[k].pc = "meta"
    /\ \E raw \in ThreadAnswers : showThreadAwaitMeta(k, raw)
    /\ UNCHANGED <<hist, histIdx, ready, active, homeFocused, resultsQuery,
                   resultsSummary, resultsList, localStorage, uuids>>
    /\ UNCHANGED chatVars

\* (mutant) a failed email fetch ends the invocation, as a failed metadata
\* fetch does.
showThreadAwaitEmailGivesUp(k, raw) ==
  LET out == fetchJSON(raw)
      j == calls[k].i
      eid == calls[k].ids[j]
      list == [h \in 1..Len(emailsList) |->
                 IF ~IsItem(emailsList[h], k, j) THEN emailsList[h]
                 ELSE IF out.ok /\ out.data.hasData
                   THEN EmailLoaded(emailsList[h], out.data, eid)
                 ELSE EmailFailed(emailsList[h])]
  IN  IF out.ok /\ out.data.hasData
        THEN EmailLoop(k, raw, calls[k].ids, j + 1, list)
        ELSE /\ emailsList' = list
             /\ calls' = SetCall(k, raw, "done", calls[k].ids, j)
             /\ UNCHANGED <<bulkBound, requests>>

\* Lines 222-257: the fetch of email calls[k].i has settled with `raw`; then
\* the loop goes on to the next email.
showThreadAwaitEmail(k, raw) ==
  LET out == fetchJSON(raw)
      j == calls[k].i
      eid == calls[k].ids[j]
      list == [h \in 1..Len(emailsList) |->
                 IF ~IsItem(emailsList[h], k, j) THEN emailsList[h]
                 ELSE IF out.ok /\ out.data.hasData
                   THEN EmailLoaded(emailsList[h], out.data, eid)
                 ELSE EmailFailed(emailsList[h])]
  IN  EmailLoop(k, raw, calls[k].ids, j + 1, list)

EmailSettles ==
  \E k \in 1..Len(calls) :
    /\ calls[k].fn = "showThread" /\ calls[k].pc = "email"
    /\ \E raw \in EmailAnswers : showThreadAwaitEmail(k, raw)
    /\ UNCHANGED <<hist, histIdx, ready, active, homeFocused, resultsQuery,
                   resultsSummary, resultsList, threadTitle, threadTopic,
                   threadDetail1, localStorage, uuids>>
    /\ UNCHANGED chatVars

\* The onclick handlers of lines 260-261.
SetOpen(b) == [h \in 1..Len(emailsList) |-> [emailsList[h] EXCEPT !.open = b]]

ExpandAll ==
  /\ bulkBound
  /\ emailsList' = SetOpen(TRUE)
  /\ UNCHANGED <<hist, histIdx, ready, active, homeFocused, resultsQuery,
                 resultsSummary, resultsList, threadTitle, threadTopic,
                 threadDetail1, bulkBound, calls, requests, localStorage, uuids>>
  /\ UNCHANGED chatVars

CollapseAll ==
  /\ bulkBound
  /\ emailsList' = SetOpen(FALSE)
  /\ UNCHANGED <<hist, histIdx, ready, active, homeFocused, resultsQuery,
                 resultsSummary, resultsList, threadTitle, threadTopic,
                 threadDetail1, bulkBound, calls, requests, localStorage, uuids>>
  /\ UNCHANGED chatVars


\* ------------------------------------------------------------------ router
Url(mode, q, id) == [mode |-> mode, q |-> q, id |-> id]

Mode(v) == S(<<v>>)

T1 == <<"T","1">>
T2 == <<"T","<">>

\* The URLs the page may be opened at.
InitialURLs ==
  {Url(Undef, Undef, Undef),
   Url(Mode("other"), S(<<"a">>), Undef),
   Url(Mode(VIEWS.RESULTS), S(<<"a">>), Undef),
   Url(Mode(VIEWS.RESULTS), Undef, Undef),
   Url(Mode(VIEWS.THREAD), Undef, S(T1)),
   Url(Mode(VIEWS.THREAD), Undef, Undef)}

\* What a user may type into a query input.
TypedQueries == {<<"a">>, <<" ","b"," ">>, <<" ">>}

ThreadIds == {T1, T2}

\* history.pushState({}, "", url): the entries after the current one are
\* dropped and url becomes the current entry.
pushState(url) ==
  /\ hist' = Append(SubSeq(hist, 1, histIdx), url)
  /\ histIdx' = histIdx + 1

gotoResults(q) ==
  /\ pushState([location EXCEPT !.mode = Mode(VIEWS.RESULTS), !.q = q])
  /\ showResults(q)

gotoThread(id) ==
  /\ pushState([location EXCEPT !.mode = Mode(VIEWS.THREAD), !.id = id])
  /\ showThread(id)

\* routeFromURL, run with the URL query `loc`.
routeFromURL(loc) ==
  IF loc.mode = Mode(VIEWS.RESULTS) THEN showResults(Or(loc.q, S(<<>>)))
  ELSE IF loc.mode = Mode(VIEWS.THREAD) THEN showThread(loc.id)
  ELSE IF VIEWS.HOME \in ViewContainers
    THEN /\ active' = show(VIEWS.HOME)
         /\ homeFocused' = TRUE
         /\ UNCHANGED <<resultsQuery, resultsSummary, resultsList, threadTitle,
                        threadTopic, threadDetail1, emailsList, bulkBound,
                        calls, requests>>
  ELSE UNCHANGED <<active, homeFocused, resultsQuery, resultsSummary,
                   resultsList, threadTitle, threadTopic, threadDetail1,
                   emailsList, bulkBound, calls, requests>>

\* The DOMContentLoaded listener (lines 265-285): the forms are bound and the
\* initial URL is routed.
DOMContentLoaded ==
  /\ ~ready
  /\ ready' = TRUE
  /\ routeFromURL(location)
  /\ UNCHANGED <<hist, histIdx, localStorage, uuids>>
  /\ UNCHANGED chatVars

\* The submit listener of #home-form (lines 268-273).
HomeFormSubmit ==
  /\ ready /\ Len(calls) < MaxCalls
  /\ \E typed \in TypedQueries :
       LET q == Trim(typed)
       IN  q # <<>> /\ gotoResults(S(q))
  /\ UNCHANGED <<ready, localStorage, uuids>>
  /\ UNCHANGED chatVars

\* The submit listener of #results-form (lines 277-282).
ResultsFormSubmit ==
  /\ ready /\ Len(calls) < MaxCalls
  /\ \E typed \in TypedQueries :
       LET q == Trim(typed)
       IN  q # <<>> /\ gotoResults(S(q))
  /\ UNCHANGED <<ready, localStorage, uuids>>
  /\ UNCHANGED chatVars

\* A call of gotoThread by the page.
GotoThread ==
  /\ ready /\ Len(calls) < MaxCalls
  /\ \E id \in ThreadIds : gotoThread(S(id))
  /\ UNCHANGED <<ready, localStorage, uuids>>
  /\ UNCHANGED chatVars

\* (mutant) no listener is bound to popstate: the view stays as it was.
PopstateUnbound ==
  /\ Len(calls) < MaxCalls
  /\ \E j \in 1..Len(hist) :
       /\ j # histIdx
       /\ histIdx' = j
  /\ UNCHANGED <<active, homeFocused, resultsQuery, resultsSummary,
                 resultsList, threadTitle, threadTopic, threadDetail1,
                 emailsList, bulkBound, calls, requests>>
  /\ UNCHANGED <<hist, ready, localStorage, uuids>>
  /\ UNCHANGED chatVars

\* The popstate listener (line 66): the browser has moved to entry j of the
\* session history (back or forward) and routeFromURL runs.
Popstate ==
  /\ Len(calls) < MaxCalls
  /\ \E j \in 1..Len(hist) :
       /\ j # histIdx
       /\ histIdx' = j
       /\ routeFromURL(hist[j])
  /\ UNCHANGED <<hist, ready, localStorage, uuids>>
  /\ UNCHANGED chatVars

\* ------------------------------------------------------ the search page
SearchInit ==
  /\ hist \in {<<u>> : u \in InitialURLs}
  /\ histIdx = 1
  /\ ready = FALSE
  /\ active = {}
  /\ homeFocused = FALSE
  /\ resultsQuery = <<>>
  /\ resultsSummary = ""
  /\ resultsList = <<>>
  /\ threadTitle = ""
  /\ threadTopic = ""
  /\ threadDetail1 = ""
  /\ emailsList = <<>>
  /\ bulkBound = FALSE
  /\ calls = <<>>
  /\ requests = <<>>

StoreInit ==
  /\ localStorage = {}
  /\ uuids = 0

\* ---------------------------------------------------------------- chat page
CONTEXT_MODE == "summary"

\* threadUrl, without the origin.
threadUrl(threadId) ==
  <<"/search?mode=thread&id=">> \o encodeURIComponent(String(threadId))

Msg(role, meta, kind, html, sources) ==
  [role |-> role, meta |-> meta, kind |-> kind, html |-> html, sources |-> sources]

\* (mutant) the user message is put before the transcript, not after it.
addUserMessageOnTop(text) ==
  <<Msg("user", <<>>, "html", safe(S(text)), <<>>)>> \o chatMessages

\* addUserMessage: the bubble holds safe(text).
addUserMessage(text) ==
  Append(chatMessages, Msg("user", <<>>, "html", safe(S(text)), <<>>))

\* addAssistantMessage(html, thinking), appended to `messages`: the content
\* is the typing indicator when thinking, else html.
addAssistantMessage(messages, html, thinking) ==
  Append(messages,
         Msg("assistant", <<"Vetus Assistant">>,
             IF thinking THEN "thinking" ELSE "html",
             IF thinking THEN <<>> ELSE html, <<>>))

Welcome == <<"<p>Hi! Ask a question and I'll search your email threads for answers.</p>">>

buildRewritePrompt(query) ==
  <<"USER QUESTION:", "\n">> \o query
    \o <<"\n", "\n", "INSTRUCTIONS:", "\n",
         "- Rewrite the USER QUESTION above into a single, concise embedding search query.",
         "\n",
         "- Drop filler and verbose statements. Output only the query, no quotes.">>

QuoteChars == {"'", "\"", Backtick}

\* . in a regular expression matches anything but a line terminator.
IsLineTerminator(c) == c \in {"\n", "\r"}

\* s.match(/^['"`](.*)['"`]$/): the text between a first and a last quote
\* character, when there are both and no line terminator lies between them.
stripWrapperQuotes(s) ==
  IF /\ Len(s) >= 2
     /\ s[1] \in QuoteChars
     /\ s[Len(s)] \in QuoteChars
     /\ \A i \in 2..(Len(s) - 1) : ~IsLineTerminator(s[i])
    THEN SubSeq(s, 2, Len(s) - 1)
    ELSE s

\* safe(answer).replace(/\n{2,}/g,"</p><p>").replace(/\n/g,"<br/>")
RECURSIVE DropNewlines(_)
DropNewlines(s) == IF s # <<>> /\ Head(s) = "\n" THEN DropNewlines(Tail(s)) ELSE s

RECURSIVE Paragraphs(_)
Paragraphs(s) ==
  IF s = <<>> THEN <<>>
  ELSE IF Head(s) = "\n" /\ Len(s) >= 2 /\ s[2] = "\n"
    THEN <<"</p><p>">> \o Paragraphs(DropNewlines(s))
  ELSE IF Head(s) = "\n" THEN <<"<br/>">> \o Paragraphs(Tail(s))
  ELSE <<Head(s)>> \o Paragraphs(Tail(s))

AnswerHtml(answer) ==
  <<"<p>">> \o Paragraphs(safe(S(Trim(String(Or(answer, S(<<>>))))))) \o <<"</p>">>


\* A pill of the sources list: its link and the pieces of its label.
Pill(kind, href, pieces) == [kind |-> kind, href |-> href, pieces |-> pieces]

ChatScore(r) ==
  IF r.score.t = "number" THEN <<" (">> \o IntChars(Round(r.score.n)) \o <<"%)">> ELSE <<>>

ChatDocName(r) ==
  Or(r.doc_name,
     IF Truthy(r.doc_path) THEN S(LastSegment(String(r.doc_path))) ELSE S(<<"Document">>))

ChatDocPayload(r) ==
  [doc_name |-> ChatDocName(r), source |-> r.doc_path, page |-> r.page,
   paragraph_index |-> r.paragraph_index, paragraph |-> Or(r.paragraph, S(<<>>))]

\* Lines 136-150.
ChatDocPill(r, id) ==
  Pill("doc", <<"/doc?id=">> \o id,
       <<safe(ChatDocName(r)), ChatScore(r),
         IF r.page.t # "undefined" THEN <<" * page ">> \o String(r.page) ELSE <<>>>>)

\* Lines 152-158.
ChatThreadPill(r) ==
  Pill("thread", threadUrl(r.thread_id),
       <<safe(Or(r.subject, Or(r.topic, r.thread_id))), ChatScore(r),
         IF r.emails_count.t = "number"
           THEN <<" * ">> \o NumChars(r.emails_count.n) \o <<" email">>
                  \o (IF r.emails_count.n = 10 THEN <<>> ELSE <<"s">>)
           ELSE <<>>>>)

IsChatDoc(r) == ~Truthy(r.thread_id) /\ (Truthy(r.doc_path) \/ Truthy(r.paragraph))

ChatDocs(items) == {i \in 1..Len(items) : IsChatDoc(items[i])}

\* sources.map(...) of lines 134-160, from source i on.
RECURSIVE RenderSources(_, _, _, _)
RenderSources(items, i, acc, quota) ==
  IF i > Len(items) THEN acc
  ELSE
    LET r == items[i]
        id == MintId(acc.uuids + 1)
        next ==
          IF IsChatDoc(r)
            THEN [list |-> Append(acc.list, ChatDocPill(r, id)),
                  store |-> IF i \in quota THEN acc.store
                            ELSE acc.store \cup
                                   {[key |-> id, payload |-> ChatDocPayload(r)]},
                  uuids |-> acc.uuids + 1]
            ELSE [acc EXCEPT !.list = Append(acc.list, ChatThreadPill(r))]
    IN  RenderSources(items, i + 1, next, quota)

ChatQuotaChoices(items) ==
  {{i \in ChatDocs(items) : i >= m} : m \in ChatDocs(items) \cup {Len(items) + 1}}

\* ------------------------------------------------------ the chat's answers
AskData(answer) == [answer |-> answer]

AskAnswers ==
  {Raw(TRUE, 200, <<>>, TRUE, AskData(a)) :
     a \in {S(<<"\"","k"," ","w","\"">>), S(<<" ","k","\n">>), Undef,
            S(<<"\"","'","k","'","\"">>), S(<<"\"","k","\n","w","\"">>)}}
    \cup {Raw(FALSE, 0, <<>>, FALSE, AskData(Undef)),
          Raw(TRUE, 500, <<"<","e",">">>, FALSE, AskData(Undef))}

RagData(answer, st, items) == [answer |-> answer, sourcesType |-> st, items |-> items]

\* The sources of an answer: the first j of these, in this order.
SampleSources == <<HitDocMarkup, HitThread, HitNeither, HitDoc>>

RagSources == {SubSeq(SampleSources, 1, j) : j \in 0..Min(MaxHits, Len(SampleSources))}

RagBodies ==
  {RagData(S(<<"A","\n","\n","<","\n","B">>), "array", q) : q \in RagSources}
    \cup {RagData(Undef, "undefined", <<>>)}

RagAnswers ==
  {Raw(TRUE, 200, <<>>, TRUE, b) : b \in RagBodies}
    \cup {Raw(FALSE, 0, <<>>, FALSE, RagData(Undef, "undefined", <<>>)),
          Raw(TRUE, 500, <<"<","e",">">>, FALSE, RagData(Undef, "undefined", <<>>))}

\* What a user may type into #chat-input.
TypedChats == {<<"\"","h","i","\"">>, <<" ","q","?"," ">>, <<" ">>}


\* ------------------------------------------------------ the submit listener
\* A run of the submit listener and its local variables: val, where it
\* stands (pc), the response of the rewrite call (res) and the answer it
\* carried (rewriteResp.answer), used, thinkingEl (el), and the response of
\* the RAG-answer call (resp).
Submit(val, pc, used, el) ==
  [val |-> val, pc |-> pc, used |-> used, el |-> el, res |-> NoRes,
   answer |-> Undef, resp |-> NoRes]

ChatRequest(i, endpoint, user_input, query, option) ==
  [submit |-> i, endpoint |-> endpoint, user_input |-> user_input,
   query |-> query, option |-> option]

\* The user edits #chat-input.
TypeChat ==
  /\ \E typed \in TypedChats : chatInput' = typed
  /\ chatInput' # chatInput
  /\ UNCHANGED <<chatMessages, submits, chatRequests, localStorage, uuids>>
  /\ UNCHANGED searchVars

\* (mutant) the RAG-answer call is issued together with the rewrite call.
SubmitChatBothAtOnce ==
  LET val == Trim(chatInput)
      thinkingEl == Len(chatMessages) + 2
  IN  /\ Len(submits) < MaxSubmits
      /\ val # <<>>
      /\ chatInput' = <<>>
      /\ chatMessages' = addAssistantMessage(addUserMessage(val), <<>>, TRUE)
      /\ chatRequests' =
           chatRequests \o
             <<ChatRequest(Len(submits) + 1, "/ask", buildRewritePrompt(val),
                           <<>>, "deepseek-r1-12k:8b"),
               ChatRequest(Len(submits) + 1, "/ask-with-rag", val, val, CONTEXT_MODE)>>
      /\ submits' = Append(submits, Submit(val, "AwaitingRewrite", <<>>, thinkingEl))
      /\ UNCHANGED <<localStorage, uuids>>
      /\ UNCHANGED searchVars

\* Lines 80-106: from the submit event to the await of the rewrite call.
SubmitChat ==
  LET val == Trim(chatInput)
      thinkingEl == Len(chatMessages) + 2
  IN  /\ Len(submits) < MaxSubmits
      /\ val # <<>>
      /\ chatInput' = <<>>
      /\ chatMessages' = addAssistantMessage(addUserMessage(val), <<>>, TRUE)
      /\ chatRequests' =
           Append(chatRequests,
                  ChatRequest(Len(submits) + 1, "/ask", buildRewritePrompt(val),
                              <<>>, "deepseek-r1-12k:8b"))
      /\ submits' = Append(submits, Submit(val, "AwaitingRewrite", <<>>, thinkingEl))
      /\ UNCHANGED <<localStorage, uuids>>
      /\ UNCHANGED searchVars

\* The query of phase 2 (lines 107-111): the rewrite's answer, trimmed and
\* stripped of its wrapper quotes, or the input when the rewrite failed or
\* answered nothing.
ResolvedQuery(val, out) ==
  LET rewriteResp == IF out.ok THEN out.data ELSE AskData(S(val))
      stripped == stripWrapperQuotes(Trim(String(Or(rewriteResp.answer, S(<<>>)))))
  IN  IF stripped # <<>> THEN stripped ELSE val

\* Lines 107-123: the rewrite call of submission i has settled with `raw`;
\* the meta line shows the query and the RAG-answer call is issued.
RewriteSettled(i, raw) ==
  LET val == submits[i].val
      out == fetchJSON(raw)
      used == ResolvedQuery(val, out)
      el == submits[i].el
  IN  /\ chatMessages' =
           [chatMessages EXCEPT ![el].meta =
              <<"Vetus Assistant * Query:<code>", "\n">> \o safe(S(used)) \o <<"</code>">>]
      /\ chatRequests' =
           Append(chatRequests,
                  ChatRequest(i, "/ask-with-rag", val, used, CONTEXT_MODE))
      /\ submits' = [submits EXCEPT ![i].pc = "AwaitingAnswer", ![i].used = used,
                                    ![i].res = Res(raw),
                                    ![i].answer = IF out.ok THEN out.data.answer
                                                  ELSE S(val)]

RewriteSettles ==
  \E i \in 1..Len(submits) :
    /\ submits[i].pc = "AwaitingRewrite"
    /\ \E raw \in AskAnswers : RewriteSettled(i, raw)
    /\ UNCHANGED <<chatInput, localStorage, uuids>>
    /\ UNCHANGED searchVars

\* (mutant) the outcome is written into the last message of the transcript.
AnswerSettledIntoLast(i, raw, quota) ==
  LET out == fetchJSON(raw)
      el == Len(chatMessages)
      sources == IF out.data.sourcesType = "array" THEN out.data.items ELSE <<>>
      acc == RenderSources(sources, 1,
                           [list |-> <<>>, store |-> localStorage, uuids |-> uuids],
                           quota)
  IN  IF out.ok
        THEN /\ chatMessages' =
                  [chatMessages EXCEPT ![el].kind = "html",
                                       ![el].html = AnswerHtml(out.data.answer),
                                       ![el].sources = acc.list]
             /\ localStorage' = acc.store
             /\ uuids' = acc.uuids
             /\ submits' = [submits EXCEPT ![i].pc = "Rendered", ![i].resp = Res(raw)]
        ELSE /\ chatMessages' =
                  [chatMessages EXCEPT ![el].kind = "error",
                                       ![el].html =
                                         <<"<p>Sorry, I hit an error: ">>
                                           \o safe(S(out.message)) \o <<"</p>">>]
             /\ submits' = [submits EXCEPT ![i].pc = "Errored", ![i].resp = Res(raw)]
             /\ UNCHANGED <<localStorage, uuids>>

\* (mutant) the answer is rendered whether the RAG-answer call failed or not.
AnswerSettledNoCatch(i, raw, quota) ==
  LET out == fetchJSON(raw)
      el == submits[i].el
      sources == IF out.data.sourcesType = "array" THEN out.data.items ELSE <<>>
      acc == RenderSources(sources, 1,
                           [list |-> <<>>, store |-> localStorage, uuids |-> uuids],
                           quota)
  IN  /\ chatMessages' =
           [chatMessages EXCEPT ![el].kind = "html",
                                ![el].html = AnswerHtml(out.data.answer),
                                ![el].sources = acc.list]
      /\ localStorage' = acc.store
      /\ uuids' = acc.uuids
      /\ submits' = [submits EXCEPT ![i].pc = "Rendered", ![i].resp = Res(raw)]

\* Lines 124-169: the RAG-answer call of submission i has settled with `raw`.
AnswerSettled(i, raw, quota) ==
  LET out == fetchJSON(raw)
      el == submits[i].el
      sources == IF out.data.sourcesType = "array" THEN out.data.items ELSE <<>>
      acc == RenderSources(sources, 1,
                           [list |-> <<>>, store |-> localStorage, uuids |-> uuids],
                           quota)
  IN  IF out.ok
        THEN /\ chatMessages' =
                  [chatMessages EXCEPT ![el].kind = "html",
                                       ![el].html = AnswerHtml(out.data.answer),
                                       ![el].sources = acc.list]
             /\ localStorage' = acc.store
             /\ uuids' = acc.uuids
             /\ submits' = [submits EXCEPT ![i].pc = "Rendered", ![i].resp = Res(raw)]
        ELSE /\ chatMessages' =
                  [chatMessages EXCEPT ![el].kind = "error",
                                       ![el].html =
                                         <<"<p>Sorry, I hit an error: ">>
                                           \o safe(S(out.message)) \o <<"</p>">>]
             /\ submits' = [submits EXCEPT ![i].pc = "Errored", ![i].resp = Res(raw)]
             /\ UNCHANGED <<localStorage, uuids>>

AnswerSettles ==
  \E i \in 1..Len(submits) :
    /\ submits[i].pc = "AwaitingAnswer"
    /\ \E raw \in RagAnswers :
         \E quota \in ChatQuotaChoices(raw.json.items) : AnswerSettled(i, raw, quota)
    /\ UNCHANGED <<chatInput, chatRequests>>
    /\ UNCHANGED searchVars

\* The chat page once its DOMContentLoaded listener has run (lines 76-174):
\* the submit listener is bound and the welcome message is in the transcript.
ChatInit ==
  /\ chatInput = <<>>
  /\ chatMessages = addAssistantMessage(<<>>, Welcome, FALSE)
  /\ submits = <<>>
  /\ chatRequests = <<>>

\* ------------------------------------------------------- specifications
vars == <<searchVars, storeVars, chatVars>>

\* The search page, with the chat page's state left alone.
Init == SearchInit /\ StoreInit /\ ChatInit

Next ==
  \/ DOMContentLoaded
  \/ HomeFormSubmit
  \/ ResultsFormSubmit
  \/ GotoThread
  \/ Popstate
  \/ LookupSettles
  \/ ThreadSettles
  \/ EmailSettles
  \/ ExpandAll
  \/ CollapseAll

Spec == Init /\ [][Next]_vars

\* The chat page, with the search page's state left alone.
InitChat ==
  /\ SearchInit
  /\ hist = <<Url(Undef, Undef, Undef)>>
  /\ StoreInit
  /\ ChatInit

NextChat ==
  \/ TypeChat
  \/ SubmitChat
  \/ RewriteSettles
  \/ AnswerSettles

SpecChat == InitChat /\ [][NextChat]_vars

\* ------------------------------------------------------------------ claims
\* Step predicates: invocation k leaves the await it stood at.
LookupEnds(k) ==
  /\ k \in 1..Len(calls)
  /\ calls[k].fn = "showResults" /\ calls[k].pc = "lookup"
  /\ calls'[k].pc # "lookup"

MetaEnds(k) ==
  /\ k \in 1..Len(calls)
  /\ calls[k].fn = "showThread" /\ calls[k].pc = "meta"
  /\ calls'[k].pc # "meta"

Failed(res) == ~res.net \/ ~(res.status >= 200 /\ res.status <= 299) \/ ~res.valid

\* The cards a step has appended to #results-list.
NewCards == SubSeq(resultsList', Len(resultsList) + 1, Len(resultsList'))

IsCardHit(r) == Truthy(r.thread_id) \/ Truthy(r.doc_path)

\* C1: when a lookup answers successfully, the list gains one card per hit
\* that carries thread_id or doc_path, in response order, and the card of a
\* thread hit is its thread card (title, rounded score pill, link to
\* ?mode=thread&id=<thread_id>).
C1_EveryHitGetsItsCard ==
  [][\A k \in 1..Len(calls) :
       (LookupEnds(k) /\ calls'[k].pc = "done") =>
         LET wanted == SelectSeq(calls'[k].hits, IsCardHit)
         IN  /\ Len(resultsList') = Len(resultsList) + Len(wanted)
             /\ \A j \in 1..Len(wanted) :
                  /\ j <= Len(NewCards)
                  /\ IF Truthy(wanted[j].thread_id)
                       THEN NewCards[j] = ThreadCard(wanted[j], k)
                       ELSE NewCards[j].kind = "doc"]_vars

\* C2: once showThread has the thread, the placeholder and the fetch of
\* every email are started without waiting for another email's fetch: while
\* any email fetch of the invocation is pending, every email id of the thread
\* has its request issued.
C2_EmailFetchesStartTogether ==
  \A k \in 1..Len(calls) :
    (calls[k].fn = "showThread" /\ calls[k].pc = "email") =>
      \A j \in 1..Len(calls[k].ids) :
        \E r \in 1..Len(requests) :
          requests[r] = Request(k, "/emails/", encodeURIComponent(calls[k].ids[j]))


\* The endpoints submission i has called, in call order.
RECURSIVE EndpointsOf(_, _)
EndpointsOf(i, log) ==
  IF log = <<>> THEN <<>>
  ELSE (IF Head(log).submit = i THEN <<Head(log).endpoint>> ELSE <<>>)
         \o EndpointsOf(i, Tail(log))

C4_FallbackQueryIsTheInput ==
  \A i \in 1..Len(submits) :
    (submits[i].pc # "AwaitingRewrite" /\ Failed(submits[i].res)) =>
      /\ \E r \in 1..Len(chatRequests) :
           /\ chatRequests[r].submit = i
           /\ chatRequests[r].endpoint = "/ask-with-rag"
           /\ chatRequests[r].query = submits[i].val
      /\ submits[i].pc = "AwaitingAnswer" => chatMessages[submits[i].el].kind = "thinking"


\* The view the mode parameter of a URL names.
ModeView(loc) ==
  IF loc.mode = Mode(VIEWS.RESULTS) THEN VIEWS.RESULTS
  ELSE IF loc.mode = Mode(VIEWS.THREAD) THEN VIEWS.THREAD
  ELSE VIEWS.HOME

\* The same, a thread URL without an id naming Home.
URLView(loc) ==
  IF loc.mode = Mode(VIEWS.THREAD) /\ ~Truthy(loc.id) THEN VIEWS.HOME
  ELSE ModeView(loc)

\* C5 (as claimed): once the initial URL is routed, the active view is the
\* one the mode of the current URL names (results: Results, thread: Thread,
\* anything else: Home), whatever navigations and responses came before.
C5_ViewFollowsMode == ready => active = {ModeView(location)}

\* C5 (amended): once the initial URL is routed, the active view is the one
\* the current URL names: Results for mode=results, Thread for mode=thread
\* with a non-empty id, Home for anything else, mode=thread without an id
\* included; whatever navigations and responses came before.
C5_ViewFollowsURL == ready => active = {URLView(location)}

\* The browser has gone back to an earlier entry, a thread URL without an
\* id, while an invocation started from a later entry has settled.
C5_Witness ==
  /\ ready /\ histIdx < Len(hist)
  /\ location.mode = Mode(VIEWS.THREAD) /\ ~Truthy(location.id)
  /\ active = {VIEWS.HOME}
  /\ \E k \in 1..Len(calls) : calls[k].pc \in {"done", "failed", "notfound"}

\* Every "&" of s starts one of the three entities and s holds no "<" or ">".
IsEscaped(s) ==
  \A i \in 1..Len(s) :
    /\ s[i] \notin {"<", ">"}
    /\ s[i] = "&" =>
         \E e \in {<<"&","a","m","p",";">>, <<"&","l","t",";">>, <<"&","g","t",";">>} :
           /\ i + Len(e) - 1 <= Len(s)
           /\ SubSeq(s, i, i + Len(e) - 1) = e

\* C6: the text of every result card (title, pills, snippet, path line) and
\* of every source pill of the chat is HTML-escaped: no field of a hit is in
\* the DOM as raw markup.
C6_HitFieldsAreEscaped ==
  /\ \A c \in 1..Len(resultsList) :
       /\ IsEscaped(resultsList[c].title)
       /\ \A p \in 1..Len(resultsList[c].pills) : IsEscaped(resultsList[c].pills[p])
       /\ IsEscaped(resultsList[c].snippet)
       /\ IsEscaped(resultsList[c].footer)
  /\ \A m \in 1..Len(chatMessages) :
       \A p \in 1..Len(chatMessages[m].sources) :
         \A q \in 1..Len(chatMessages[m].sources[p].pieces) :
           IsEscaped(chatMessages[m].sources[p].pieces[q])

\* C7: when a lookup answers successfully, the summary line reads
\* "No matching results found." for no hit (and the list is then empty),
\* "1 matching result" for one hit and "<n> matching results" for n >= 2.
C7_SummaryCountsTheHits ==
  [][\A k \in 1..Len(calls) :
       (LookupEnds(k) /\ calls'[k].pc = "done") =>
         LET n == Len(calls'[k].hits)
         IN  /\ n = 0 => resultsSummary' = "No matching results found."
                         /\ resultsList' = <<>>
             /\ n = 1 => resultsSummary' = "1 matching result"
             /\ n >= 2 => resultsSummary' = ToString(n) \o " matching results"]_vars

\* The message of the Error fetchJSON throws for a transport failure or a
\* non-2xx response.
ErrorMessage(res) ==
  IF ~res.net THEN "Failed to fetch"
  ELSE IF res.text # <<>> THEN Text(res.text)
  ELSE "Request failed: " \o ToString(res.status)

\* C8: when the lookup fails (transport failure or non-2xx status), the
\* summary line becomes "Error: <message>", the result list is empty and the
\* failed lookup adds no card.
C8_FailedLookupLeavesEmptyList ==
  [][\A k \in 1..Len(calls) :
       (LookupEnds(k) /\ (~calls'[k].res.net
                           \/ ~(calls'[k].res.status >= 200 /\ calls'[k].res.status <= 299))) =>
         /\ resultsSummary' = "Error: " \o ErrorMessage(calls'[k].res)
         /\ resultsList' = <<>>
         /\ calls'[k].pc = "failed"]_vars

\* C9: when the metadata fetch of a showThread fails, the title becomes
\* "Thread not found" and the invocation ends there: it issues no request
\* (no email fetch, no retry) and the email list is empty.
C9_FailedThreadStops ==
  [][\A k \in 1..Len(calls) :
       (MetaEnds(k) /\ Failed(calls'[k].res)) =>
         /\ threadTitle' = "Thread not found"
         /\ calls'[k].pc = "notfound"
         /\ requests' = requests
         /\ emailsList' = <<>>]_vars

\* A step that resolves the URL: the load of the page or a popstate.
RouteStep == (~ready /\ ready') \/ (hist' = hist /\ histIdx' # histIdx)

\* C10: resolving a URL with mode=thread and a non-empty id activates the
\* Thread view and issues one request, the metadata fetch of that id;
\* resolving mode=thread without an id activates Home and issues no request.
C10_ThreadRouteFetchesOnce ==
  [][(RouteStep /\ hist'[histIdx'].mode = Mode(VIEWS.THREAD)) =>
       IF Truthy(hist'[histIdx'].id)
         THEN /\ active' = {VIEWS.THREAD}
              /\ requests' = Append(requests,
                                    Request(Len(calls) + 1, "/threads/",
                                            encodeURIComponent(String(hist'[histIdx'].id))))
         ELSE /\ active' = {VIEWS.HOME}
              /\ requests' = requests]_vars

\* The page was opened at a URL without a mode, gotoThread pushed a thread
\* URL, and after going back a popstate has resolved that thread URL again.
C10_Witness ==
  /\ Len(hist) = 2 /\ histIdx = 2
  /\ ~Truthy(hist[1].mode)
  /\ location.mode = Mode(VIEWS.THREAD) /\ Truthy(location.id)
  /\ Len(calls) = 2 /\ calls[1].fn = "showThread" /\ calls[2].fn = "showThread"
  /\ active = {VIEWS.THREAD}
  /\ requests[Len(requests)] =
       Request(2, "/threads/", encodeURIComponent(String(location.id)))

\* C11: every document card of the results list links to an id under which
\* exactly one staging record is stored.
C11_EveryDocLinkHasItsRecord ==
  \A c \in 1..Len(resultsList) :
    resultsList[c].kind = "doc" =>
      Cardinality({e \in localStorage :
                     <<"/doc?id=">> \o encodeURIComponent(e.key) = resultsList[c].href}) = 1

\* C12: at most one view container is active in every reachable state, and
\* exactly one once a view has been activated (the initial URL is routed).
C12_OneViewActive ==
  /\ Cardinality(active \cap ViewContainers) <= 1
  /\ ready => Cardinality(active \cap ViewContainers) = 1

\* The Thread view was activated after the Results view had been, and it is
\* the only active one.
C12_Witness ==
  /\ ready /\ Len(calls) = 2
  /\ calls[1].fn = "showResults" /\ calls[2].fn = "showThread"
  /\ active = {VIEWS.THREAD}

\* C13: whenever email items are in the list, fetches in flight or not, the
\* expand-all and collapse-all controls act: their handlers are bound, so
\* that triggering one sets every item of the list open (closed).
C13_BulkControlsActOnceItemsShow ==
  emailsList # <<>> => bulkBound

\* The message of the Error fetchJSON throws for a response, as characters.
ErrorChars(res) ==
  IF ~res.net THEN <<"Failed to fetch">>
  ELSE IF ~(res.status >= 200 /\ res.status <= 299)
    THEN (IF res.text # <<>> THEN res.text
          ELSE <<"Request failed: ", ToString(res.status)>>)
  ELSE <<"Unexpected token">>

\* C14: a chat submission only moves forward, AwaitingRewrite to
\* AwaitingAnswer to Rendered, or to Errored from a state in flight; once
\* Rendered or Errored neither its state nor its placeholder changes; and a
\* failed RAG-answer call ends in Errored, the placeholder showing the
\* apology with the escaped error text, never in Rendered.
C14_SubmissionOnlyAdvances ==
  [][\A i \in 1..Len(submits) :
       LET a == submits[i].pc
           b == submits'[i].pc
           el == submits[i].el
       IN  /\ submits'[i].el = el
           /\ a # b => <<a, b>> \in {<<"AwaitingRewrite", "AwaitingAnswer">>,
                                     <<"AwaitingRewrite", "Errored">>,
                                     <<"AwaitingAnswer", "Rendered">>,
                                     <<"AwaitingAnswer", "Errored">>}
           /\ a \in {"Rendered", "Errored"} =>
                b = a /\ chatMessages'[el] = chatMessages[el]
           /\ (a = "AwaitingAnswer" /\ b # a) =>
                IF Failed(submits'[i].resp)
                  THEN /\ b = "Errored"
                       /\ chatMessages'[el].kind = "error"
                       /\ chatMessages'[el].html =
                            <<"<p>Sorry, I hit an error: ">>
                              \o safe(S(ErrorChars(submits'[i].resp))) \o <<"</p>">>
                  ELSE b = "Rendered" /\ chatMessages'[el].kind = "html"]_vars

\* One submission has ended Errored on a RAG-answer call that failed with a
\* status and a body of markup, after which another one has ended Rendered.
C14_Witness ==
  /\ Len(submits) = 2
  /\ submits[1].pc = "Errored" /\ submits[1].resp.status = 500
  /\ chatMessages[submits[1].el].kind = "error"
  /\ submits[2].pc = "Rendered"

\* The texts of the source pills an answer body renders, whatever the
\* identifiers minted and whatever the storage holds.
PillTexts(items) ==
  LET pills == RenderSources(items, 1, [list |-> <<>>, store |-> {}, uuids |-> 0], {}).list
  IN  [p \in 1..Len(pills) |-> pills[p].pieces]

\* C15: a response to submission i changes no message but the placeholder of
\* i, and what it writes there is given by that response alone: the query of
\* i in the meta line when the rewrite settles; the answer and the source
\* pills of the response, or the apology with its error text, when the
\* RAG-answer call settles.
C15_ResponsesReachOwnPlaceholder ==
  [][\A i \in 1..Len(submits) :
       submits'[i] # submits[i] =>
         LET el == submits[i].el
             old == chatMessages[el]
             new == chatMessages'[el]
         IN  /\ Len(chatMessages') = Len(chatMessages)
             /\ \A m \in 1..Len(chatMessages) :
                  m # el => chatMessages'[m] = chatMessages[m]
             /\ submits[i].pc = "AwaitingRewrite" =>
                  new = [old EXCEPT !.meta =
                           <<"Vetus Assistant * Query:<code>", "\n">>
                             \o safe(S(submits'[i].used)) \o <<"</code>">>]
             /\ submits[i].pc = "AwaitingAnswer" =>
                  \E raw \in RagAnswers :
                    /\ submits'[i].resp = Res(raw)
                    /\ new.meta = old.meta /\ new.role = old.role
                    /\ IF Failed(Res(raw))
                         THEN /\ new.html = <<"<p>Sorry, I hit an error: ">>
                                              \o safe(S(ErrorChars(Res(raw)))) \o <<"</p>">>
                              /\ new.sources = old.sources
                         ELSE /\ new.html = AnswerHtml(raw.json.answer)
                              /\ [p \in 1..Len(new.sources) |-> new.sources[p].pieces]
                                   = PillTexts(IF raw.json.sourcesType = "array"
                                                 THEN raw.json.items ELSE <<>>)]_vars

\* Two submissions in flight at once: the second has its answer, with source
\* pills, while the first still awaits its rewrite and shows the indicator.
C15_Witness ==
  /\ Len(submits) = 2
  /\ submits[1].pc = "AwaitingRewrite"
  /\ chatMessages[submits[1].el].kind = "thinking"
  /\ submits[2].pc = "Rendered"
  /\ Len(chatMessages[submits[2].el].sources) = 2

\* The fetch of the email at which invocation k stands settles in this step.
EmailEnds(k) ==
  /\ k \in 1..Len(calls)
  /\ calls[k].fn = "showThread" /\ calls[k].pc = "email"
  /\ calls'[k] # calls[k]

\* C16: when the fetch of email j of a thread fails, the item of j stays in
\* the list and only its content area changes, to "Failed to load email.";
\* no other item changes; and the thread goes on: the next email, if there
\* is one, gets its placeholder and its fetch.
C16_FailedEmailIsLocal ==
  [][\A k \in 1..Len(calls) :
       (EmailEnds(k) /\ Failed(calls'[k].res)) =>
         LET j == calls[k].i
             ids == calls[k].ids
         IN  /\ \A h \in 1..Len(emailsList) :
                  emailsList'[h] =
                    IF IsItem(emailsList[h], k, j)
                      THEN [emailsList[h] EXCEPT
                              !.content = Content("failed", "Failed to load email.",
                                                  <<>>, <<>>, <<>>)]
                      ELSE emailsList[h]
             /\ IF j < Len(ids)
                  THEN /\ emailsList' = Append(SubSeq(emailsList', 1, Len(emailsList)),
                                               EmailPlaceholder(k, j + 1, ids[j + 1]))
                       /\ requests' = Append(requests,
                                             Request(k, "/emails/",
                                                     encodeURIComponent(ids[j + 1])))
                       /\ calls'[k].pc = "email" /\ calls'[k].i = j + 1
                  ELSE /\ Len(emailsList') = Len(emailsList)
                       /\ requests' = requests
                       /\ calls'[k].pc = "done"]_vars

\* The first email of a thread has failed and the second one has loaded.
C16_Witness ==
  /\ Len(emailsList) = 2
  /\ emailsList[1].owner = emailsList[2].owner
  /\ emailsList[1].content.state = "failed"
  /\ emailsList[1].pill = safe(S(EmailId(1)))
  /\ emailsList[2].content.state = "loaded"

\* s without its first and last character when it starts and ends with a
\* quote character, s otherwise.
OneLayerOff(s) ==
  IF Len(s) >= 2 /\ s[1] \in QuoteChars /\ s[Len(s)] \in QuoteChars
    THEN SubSeq(s, 2, Len(s) - 1)
    ELSE s

\* C17: the query a submission uses is the trimmed text of its rewrite with
\* one layer of surrounding quote characters removed: without its first and
\* last character when it starts and ends with ', " or a backtick, unchanged
\* otherwise (and the input itself when nothing is left).
C17_StripsOneLayer ==
  \A i \in 1..Len(submits) :
    submits[i].pc # "AwaitingRewrite" =>
      LET t == Trim(String(Or(submits[i].answer, S(<<>>))))
      IN  submits[i].used = IF OneLayerOff(t) # <<>> THEN OneLayerOff(t)
                            ELSE submits[i].val

IsDocHit(r) == ~Truthy(r.thread_id) /\ Truthy(r.doc_path)

\* C18: a successful lookup whose hits include one with neither thread_id
\* nor doc_path is not treated as failed; that hit gets no card and no
\* staging record; and the hits around it are processed: every document hit
\* of the response, before or after it, gets its card, in order, and no
\* record is stored but those of the document hits.
C18_UnknownHitIsSkipped ==
  [][\A k \in 1..Len(calls) :
       (/\ LookupEnds(k)
        /\ ~Failed(calls'[k].res)
        /\ \E h \in 1..Len(calls'[k].hits) : ~IsCardHit(calls'[k].hits[h])) =>
         LET hits == calls'[k].hits
             docs == SelectSeq(hits, IsDocHit)
         IN  /\ calls'[k].pc = "done"
             /\ resultsSummary' = SummaryLine(hits)
             /\ NewCards = [j \in 1..Len(docs) |->
                              DocCard(docs[j], k, MintId(uuids + j))]
             /\ uuids' = uuids + Len(docs)
             /\ localStorage \subseteq localStorage'
             /\ localStorage' \subseteq
                  localStorage \cup
                    {[key |-> MintId(uuids + j), payload |-> DocPayload(docs[j])] :
                       j \in 1..Len(docs)}]_vars

\* A lookup has answered with an unknown hit followed by a document hit, and
\* the list holds the card of the document hit only.
C18_Witness ==
  \E k \in 1..Len(calls) :
    /\ calls[k].pc = "done"
    /\ calls[k].hits = <<HitNeither, HitDocMarkup>>
    /\ Len(resultsList) = 1
    /\ resultsList[1].origin = k /\ resultsList[1].kind = "doc"
    /\ resultsSummary = "2 matching results"

\* C19: the transcript only grows at its end: no step removes or moves an
\* entry (each keeps its place and its role, a user message its text too),
\* and a submission appends its user message and, right after it, its own
\* placeholder, so that the entries stand in submission order whatever the
\* order in which responses arrive.
C19_TranscriptIsAppendOnly ==
  [][/\ Len(chatMessages') >= Len(chatMessages)
     /\ \A m \in 1..Len(chatMessages) :
          /\ chatMessages'[m].role = chatMessages[m].role
          /\ chatMessages[m].role = "user" => chatMessages'[m] = chatMessages[m]
     /\ IF Len(submits') > Len(submits)
          THEN LET new == submits'[Len(submits')]
               IN  /\ chatMessages' =
                        chatMessages \o
                          <<Msg("user", <<>>, "html", safe(S(new.val)), <<>>),
                            Msg("assistant", <<"Vetus Assistant">>, "thinking",
                                <<>>, <<>>)>>
                   /\ new.el = Len(chatMessages')
          ELSE Len(chatMessages') = Len(chatMessages)
     /\ \A i \in 1..Len(submits') : submits'[i].el = 1 + 2 * i]_vars

\* Two submissions, the second answered while the first still waits: the
\* transcript is the welcome, then each user message with its placeholder.
C19_Witness ==
  /\ Len(submits) = 2 /\ Len(chatMessages) = 5
  /\ submits[1].pc = "AwaitingAnswer" /\ submits[2].pc = "Rendered"
  /\ chatMessages[1].html = Welcome
  /\ chatMessages[2] = Msg("user", <<>>, "html", safe(S(submits[1].val)), <<>>)
  /\ chatMessages[4] = Msg("user", <<>>, "html", safe(S(submits[2].val)), <<>>)
  /\ chatMessages[5].kind = "html"

\* The invocations of showResults.
Lookups == {k \in 1..Len(calls) : calls[k].fn = "showResults"}

\* C20: once no lookup is in flight, the summary line and the result list
\* show the outcome of the lookup started last, and nothing of an earlier
\* one, in whichever order the responses arrived.
C20_OnlyLatestLookupShows ==
  (Lookups # {} /\ \A k \in Lookups : calls[k].pc # "lookup") =>
    LET last == CHOOSE k \in Lookups : \A j \in Lookups : j <= k
    IN  /\ \A c \in 1..Len(resultsList) : resultsList[c].origin = last
        /\ calls[last].pc = "done" =>
             resultsSummary = SummaryLine(calls[last].hits)
        /\ calls[last].pc = "failed" =>
             resultsSummary = "Error: " \o Text(ErrorChars(calls[last].res))


=============================================================================
